---- MODULE Spec2Model ----
(***************************************************************************)
(* A model of package yeelight (yeelight.go): the Bulb session, NewBulb,   *)
(* Bulb.Send and the convenience methods TurnOn, TurnOff, ColorTemp, RGB   *)
(* and Brightness, together with the connection they talk through.         *)
(*                                                                         *)
(* Bytes are modelled as tokens.  A JSON object text is two tokens: "obj"  *)
(* (the text up to, but not including, its closing brace) and "}" (the     *)
(* closing brace).  "LF" is a line feed, "CR" a carriage return and "x" a  *)
(* byte that cannot start a JSON value.                                    *)
(***************************************************************************)
EXTENDS Integers, Sequences, FiniteSets, TLC

(* ------------------------------ bounds --------------------------------- *)

\* number of goroutines calling Send on the one session
NumCallers == 2
\* total number of Send invocations in a run
MaxSends == 2
\* number of messages the device sends without being asked
MaxUnsolicited == 1
\* longest address string handed to NewBulb
MaxAddrLen == 4
\* how far on either side of a limit the integer arguments of ColorTemp,
\* Brightness and RGB are taken
Edge == 1

Callers == 1..NumCallers

VARIABLES
    address,    \* NewBulb's argument, a sequence of characters
    dialAddr,   \* the address handed to net.Dial (<<>> before NewBulb ran)
    conn,       \* Bulb.conn: "nil" before NewBulb, "tcp" once dialled
    cmdID,      \* Bulb.cmdID
    mu,         \* Bulb.mu: 0 when free, else the caller holding it
    pc,         \* where each caller is inside Send
    method,     \* Send's parameter method, per caller
    args,       \* Send's parameter args, per caller
    cmd,        \* Send's local cmd, per caller
    dbuf,       \* the buffer of the json.Decoder a caller's Send created
    blocked,    \* history: the caller's running Send has found the mutex held
    wire,       \* every byte written to the connection, in order
    inbox,      \* bytes the device has sent that no Read has returned yet
    closed,     \* the device has closed its end of the connection
    devPos,     \* how far into wire the device has answered
    unsol,      \* number of unsolicited device messages so far
    log,        \* history: one entry per Send, in lock-acquisition order
    op          \* history: the convenience method called, its arguments and
                \* the error it returned

vars == <<address, dialAddr, conn, cmdID, mu, pc, method, args, cmd, dbuf,
          blocked, wire, inbox, closed, devPos, unsol, log, op>>

(* ------------------------- methods and values -------------------------- *)

MethodSetCTABX == "set_ct_abx"
MethodSetRGB == "set_rgb"
MethodSetHSV == "set_hsv"
MethodSetBrightness == "set_bright"
MethodSetPower == "set_power"
MethodToggle == "toggle"

\* Method.String on the address of a Method value: never nil inside Send
String(m) == m

\* an interface{} argument: a string, an int, or a value encoding/json
\* cannot encode (a channel, a func)
StrVal(s) == [kind |-> "str", s |-> s, n |-> 0]
IntVal(n) == [kind |-> "int", s |-> "", n |-> n]
ChanVal == [kind |-> "chan", s |-> "", n |-> 0]

\* the zero command
NoCmd == [ID |-> 0, Method |-> "", Params |-> <<>>]

\* the calls of Send the model makes
SendInputs ==
    { [method |-> MethodSetPower, args |-> <<StrVal("on")>>],
      [method |-> MethodSetHSV, args |-> <<ChanVal>>] }

(* ------------------------------ NewBulb -------------------------------- *)

AddrChars == {"a", "1", ".", ":", "[", "]"}

DefaultPortSuffix == <<":", "5", "5", "4", "4", "3">>

\* strings.Contains
Contains(s, sub) ==
    \E i \in 0..(Len(s) - Len(sub)) :
        \A j \in 1..Len(sub) : s[i + j] = sub[j]

\* the address NewBulb dials
DialAddress(a) ==
    IF ~Contains(a, <<":">>) THEN a \o DefaultPortSuffix ELSE a

\* net.Dial("tcp", a) can connect only when a splits into host and port
\* (net.SplitHostPort: the port follows the last colon; a host with a colon
\* is in brackets) and the port is a number
Digits == {"1", "3", "4", "5"}
LastColon(a) ==
    LET S == {i \in 1..Len(a) : a[i] = ":"}
    IN  IF S = {} THEN 0 ELSE CHOOSE i \in S : \A j \in S : j <= i
CanDial(a) ==
    LET i == LastColon(a) IN
    /\ i > 0
    /\ IF a[1] = "["
       THEN /\ i >= 3
            /\ a[i - 1] = "]"
            /\ \A j \in 2..(i - 2) : a[j] \notin {"[", "]"}
       ELSE \A j \in 1..(i - 1) : a[j] \notin {":", "[", "]"}
    /\ i < Len(a)
    /\ \A j \in (i + 1)..Len(a) : a[j] \in Digits

\* a NewBulb that starts the counter at one
NewBulbCmdIDFromOne == 0 + 1

\* the counter of the Bulb NewBulb returns (the zero value of the field)
NewBulbCmdID == 0

\* every address string of at most MaxAddrLen characters
Addresses == UNION {[1..n -> AddrChars] : n \in 0..MaxAddrLen}

(* --------------------------- bytes on the wire ------------------------- *)

\* a byte (token) written by Send; call is the history index of the Send
\* that wrote it
ObjTok(c, n) ==
    [t |-> "obj", id |-> c.ID, method |-> c.Method, params |-> c.Params, call |-> n]
PlainTok(t, n) ==
    [t |-> t, id |-> 0, method |-> "", params |-> <<>>, call |-> n]

\* json.Marshal fails on a value it cannot encode
Encodable(c) == \A i \in 1..Len(c.Params) : c.Params[i].kind # "chan"

\* json.Marshal(cmd): the object text {"id":..,"method":..,"params":[..]}
Marshal(c, n) == <<ObjTok(c, n), PlainTok("}", n)>>

\* what Encoder.Encode hands to conn.Write: the object text and a newline
EncodeBytes(c, n) == Marshal(c, n) \o <<PlainTok("LF", n)>>

\* what fmt.Fprint(b.conn, "\r\n") hands to conn.Write
TrailerBytes(n) == <<PlainTok("CR", n), PlainTok("LF", n)>>

(* ------------------------- bytes from the device ----------------------- *)

\* re is the history index of the Send whose frame the device answers (0 for
\* a message nobody asked for)
InObj(kind, id, re) == [t |-> "obj", kind |-> kind, id |-> id, re |-> re]
InPlain(t) == [t |-> t, kind |-> "", id |-> 0, re |-> 0]

\* {"id":n,"result":["ok"]}, {"id":n,"error":{..}}, and the notification
\* {"method":"props","params":{..}}
ReplyKinds == {"result", "error"}
DeviceMsg(kind, id, re) == <<InObj(kind, id, re), InPlain("}")>>

IsSpace(tok) == tok.t \in {"CR", "LF"}

\* Unmarshal of one object text into a response: members the struct does not
\* name are ignored, members the text does not have stay zero
Unmarshal(tok) ==
    CASE tok.kind = "result" -> [err |-> "", ID |-> tok.id, Result |-> <<"ok">>]
      [] tok.kind = "error"  -> [err |-> "", ID |-> tok.id, Result |-> <<>>]
      [] tok.kind = "props"  -> [err |-> "", ID |-> 0, Result |-> <<>>]
      [] OTHER               -> [err |-> "type", ID |-> 0, Result |-> <<>>]

\* number of leading white-space bytes of buf
RECURSIVE LeadingSpace(_)
LeadingSpace(buf) ==
    IF buf = <<>> \/ ~IsSpace(Head(buf)) THEN 0 ELSE 1 + LeadingSpace(Tail(buf))

\* Decoder.readValue over the bytes buffered so far: "more" (no complete
\* value yet), "value" (used = bytes up to the end of the first value) or
\* "syntax" (a byte no JSON value allows there)
Scan(buf) ==
    LET s == LeadingSpace(buf) IN
    IF Len(buf) = s THEN [st |-> "more", used |-> 0]
    ELSE IF buf[s + 1].t # "obj" THEN [st |-> "syntax", used |-> 0]
    ELSE IF Len(buf) = s + 1 THEN [st |-> "more", used |-> 0]
    ELSE IF buf[s + 2].t = "}" THEN [st |-> "value", used |-> s + 2]
    ELSE [st |-> "syntax", used |-> 0]

(* ------------------------------- history ------------------------------- *)

\* res: "pending" while the Send runs, "ok" when it returned nil, else the
\* step that failed.  id: the id of the command built.  after: b.cmdID when
\* the Send returned.  got, rid, re: the reply a successful Decode parsed.
\* over: bytes the Decoder had read past the end of that reply.  steps: the
\* steps the Send has made on the connection, in order ("encode" the call of
\* Encode, "trailer" the call of Fprint, "decode" the call of Decode).
NewEntry(c, id) ==
    [by |-> c, id |-> id, res |-> "pending", after |-> 0 - 1,
     got |-> "", rid |-> 0, re |-> 0, over |-> 0, steps |-> <<>>]

\* the steps made once step is made after the steps s; the Reads of one call
\* of Decode are one step
Stepped(s, step) ==
    IF step = "decode" /\ s # <<>> /\ s[Len(s)] = "decode" THEN s ELSE Append(s, step)

\* the history index of caller c's running Send
CurCall(c) == CHOOSE n \in 1..Len(log) : log[n].by = c /\ log[n].res = "pending"

SubSeqFrom(s, i) == SubSeq(s, i, Len(s))
Prefix(s, k) == SubSeq(s, 1, k)

(* -------------------------------- Send --------------------------------- *)

InFlight == {"encode", "trailer", "decode"}

\* number of Send invocations so far
Invoked == Len(log) + Cardinality({c \in Callers : pc[c] = "lock"})

\* a caller invokes b.Send(method, args...)
SendCall(c) ==
    /\ pc[c] = "idle"
    /\ Invoked < MaxSends
    /\ \E in \in SendInputs :
        /\ method' = [method EXCEPT ![c] = in.method]
        /\ args' = [args EXCEPT ![c] = in.args]
    /\ pc' = [pc EXCEPT ![c] = "lock"]
    /\ blocked' = [blocked EXCEPT ![c] = (mu # 0)]
    /\ UNCHANGED <<address, dialAddr, conn, cmdID, mu, cmd, dbuf, wire, inbox,
                   closed, devPos, unsol, log, op>>

\* a Send that goes from Encode straight to Decode
StepAfterSkipsTrailer(step) == "decode"

\* the step Send goes to when step has returned no error
StepAfter(step) ==
    CASE step = "encode"  -> "trailer"
      [] step = "trailer" -> "decode"

\* a Send that does not take the mutex
CanLockAlways(c) == TRUE

\* b.mu.Lock() blocks while the mutex is held
CanLock(c) == mu = 0

\* b.mu.Lock(), defer b.mu.Unlock(), and the construction of cmd
SendLock(c) ==
    /\ pc[c] = "lock"
    /\ CanLock(c)
    /\ mu' = c
    /\ cmd' = [cmd EXCEPT ![c] =
                 [ID |-> cmdID, Method |-> String(method[c]), Params |-> args[c]]]
    /\ log' = Append(log, NewEntry(c, cmdID))
    /\ pc' = [pc EXCEPT ![c] = "encode"]
    /\ blocked' = [d \in Callers |-> blocked[d] \/ (d # c /\ pc[d] = "lock")]
    /\ UNCHANGED <<address, dialAddr, conn, cmdID, method, args, dbuf, wire,
                   inbox, closed, devPos, unsol, op>>

\* an Unlock written before return nil only, not deferred
UnlockOnSuccessOnly(c, err) == IF err = "ok" THEN 0 ELSE c

\* the deferred b.mu.Unlock(): the mutex after caller c's Send returned
Unlock(c, err) == 0

\* a b.cmdID++ placed before the error checks
CmdIDAlwaysIncremented(id, err) == id + 1

\* a Send that forgets b.cmdID++
CmdIDNeverIncremented(id, err) == id

\* b.cmdID when Send returns: b.cmdID++ is reached only without an error
CmdIDAtReturn(id, err) == IF err = "ok" THEN id + 1 ELSE id

\* no convenience method has been called
NoOp == [name |-> "", by |-> 0, in |-> <<>>, ret |-> ""]

\* return b.Send(..) in a convenience method: the method called by caller c
\* returns what its Send returned
OpReturn(c, err) == IF op.by = c /\ op.ret = "" THEN [op EXCEPT !.ret = err] ELSE op

\* a Send that closes the connection when a step failed
ConnClosedOnError(cn, err) == IF err = "ok" THEN cn ELSE "closed"

\* b.conn when Send returns: Send uses b.conn and never assigns or closes it
ConnAtReturn(cn, err) == cn

\* Send returns to caller c with err ("ok" for nil); r is the response parsed
\* and over the number of bytes read past it
Return(c, err, tok, over) ==
    /\ cmdID' = CmdIDAtReturn(cmdID, err)
    /\ conn' = ConnAtReturn(conn, err)
    /\ mu' = Unlock(c, err)
    /\ log' = [log EXCEPT ![CurCall(c)] =
                 [@ EXCEPT !.res = err, !.after = cmdID',
                           !.got = tok.kind, !.rid = Unmarshal(tok).ID,
                           !.re = tok.re, !.over = over,
                           !.steps = Stepped(@, IF err = "ok" THEN "decode" ELSE err)]]
    /\ pc' = [pc EXCEPT ![c] = "idle"]
    /\ cmd' = [cmd EXCEPT ![c] = NoCmd]
    /\ method' = [method EXCEPT ![c] = ""]
    /\ args' = [args EXCEPT ![c] = <<>>]
    /\ dbuf' = [dbuf EXCEPT ![c] = <<>>]
    /\ blocked' = [blocked EXCEPT ![c] = FALSE]
    /\ op' = OpReturn(c, err)

NoTok == InObj("", 0, 0)

\* err := json.NewEncoder(b.conn).Encode(cmd), and the return on an error
SendEncode(c) ==
    /\ pc[c] = "encode"
    /\ \/ /\ ~Encodable(cmd[c])
          /\ Return(c, "encode", NoTok, 0)
          /\ UNCHANGED wire
       \/ /\ Encodable(cmd[c])
          /\ wire' = wire \o EncodeBytes(cmd[c], CurCall(c))
          /\ pc' = [pc EXCEPT ![c] = StepAfter("encode")]
          /\ log' = [log EXCEPT ![CurCall(c)].steps = Stepped(@, "encode")]
          /\ UNCHANGED <<conn, cmdID, mu, method, args, cmd, dbuf, blocked, op>>
       \/ /\ Encodable(cmd[c])
          /\ \E k \in 0..(Len(EncodeBytes(cmd[c], CurCall(c))) - 1) :
                wire' = wire \o Prefix(EncodeBytes(cmd[c], CurCall(c)), k)
          /\ Return(c, "encode", NoTok, 0)
    /\ UNCHANGED <<address, dialAddr, inbox, closed, devPos, unsol>>

\* _, err = fmt.Fprint(b.conn, "\r\n"), and the return on an error
SendTrailer(c) ==
    /\ pc[c] = "trailer"
    /\ \/ /\ wire' = wire \o TrailerBytes(CurCall(c))
          /\ pc' = [pc EXCEPT ![c] = StepAfter("trailer")]
          /\ log' = [log EXCEPT ![CurCall(c)].steps = Stepped(@, "trailer")]
          /\ UNCHANGED <<conn, cmdID, mu, method, args, cmd, dbuf, blocked, op>>
       \/ /\ \E k \in 0..(Len(TrailerBytes(CurCall(c))) - 1) :
                wire' = wire \o Prefix(TrailerBytes(CurCall(c)), k)
          /\ Return(c, "trailer", NoTok, 0)
    /\ UNCHANGED <<address, dialAddr, inbox, closed, devPos, unsol>>

\* a Send that rejects a response whose id is not the id it sent
DecodeErrCheckingId(tok, sent) ==
    IF Unmarshal(tok).err = "" /\ Unmarshal(tok).ID # sent.ID
    THEN "id" ELSE Unmarshal(tok).err

\* the error of Decode(&resp) on the object text tok, which is all Send looks
\* at: resp, and its ID, are not used after the call
DecodeErr(tok, sent) == Unmarshal(tok).err

\* what one conn.Read into the Decoder's buffer returns: every byte that has
\* arrived (the buffer, 512 bytes, is larger than all the device sends here)
ReadBytes(avail) == avail

\* err = json.NewDecoder(b.conn).Decode(&resp): one Read of the connection
\* into the Decoder's buffer and the scan of the buffer; then b.cmdID++ and
\* return nil, or the return on an error
SendDecode(c) ==
    /\ pc[c] = "decode"
    /\ \/ /\ inbox # <<>>
          /\ LET buf == dbuf[c] \o ReadBytes(inbox)
                  sc == Scan(buf)
             IN     /\ inbox' = SubSeqFrom(inbox, Len(ReadBytes(inbox)) + 1)
                    /\ CASE sc.st = "more" ->
                              /\ dbuf' = [dbuf EXCEPT ![c] = buf]
                              /\ log' = [log EXCEPT ![CurCall(c)].steps =
                                                       Stepped(@, "decode")]
                              /\ UNCHANGED <<conn, cmdID, mu, pc, method, args, cmd,
                                             blocked, op>>
                         [] sc.st = "syntax" ->
                              Return(c, "decode", NoTok, 0)
                         [] sc.st = "value" ->
                              IF DecodeErr(buf[sc.used - 1], cmd[c]) = ""
                              THEN Return(c, "ok", buf[sc.used - 1], Len(buf) - sc.used)
                              ELSE Return(c, "decode", buf[sc.used - 1],
                                          Len(buf) - sc.used)
       \/ /\ inbox = <<>>
          /\ closed
          /\ Return(c, "decode", NoTok, 0)
          /\ UNCHANGED inbox
    /\ UNCHANGED <<address, dialAddr, wire, closed, devPos, unsol>>

(* ------------------------ the convenience methods ---------------------- *)

\* the integers handed to ColorTemp, Brightness and RGB: each limit the code
\* compares with, the values Edge below and above it, and some far from
\* every limit
KelvinInputs ==
    {1700 - Edge, 1700, 1700 + Edge, 6500 - Edge, 6500, 6500 + Edge,
     0 - 5000, 0, 4000, 100000}
PercentInputs ==
    {0 - Edge, 0, 1, 1 + Edge, 100 - Edge, 100, 100 + Edge, 0 - 300, 50, 300}
ChannelInputs == {0 - Edge, 0, 1, 255, 255 + Edge}

\* a ColorTemp without the case temp > 6500
ColorTempArgNoUpper(temp) == IF temp < 1700 THEN 1700 ELSE temp

\* the switch of ColorTemp: the value of temp handed to Send
ColorTempArg(temp) ==
    CASE temp < 1700 -> 1700
      [] temp > 6500 -> 6500
      [] OTHER       -> temp

\* a Brightness whose second case reads brightness < 0
BrightnessArgZeroKept(brightness) ==
    CASE brightness > 100 -> 100
      [] brightness < 0   -> 1
      [] OTHER            -> brightness

\* the switch of Brightness: the value of brightness handed to Send
BrightnessArg(brightness) ==
    CASE brightness > 100 -> 100
      [] brightness < 1   -> 1
      [] OTHER            -> brightness

\* x << k on an int (no input of the model leaves the 64 bits of an int)
Shl(x, k) == x * 2 ^ k

\* a & b, ^a and a | b on ints in two's complement
RECURSIVE BitAndNat(_, _)
BitAndNat(a, b) ==
    IF a = 0 \/ b = 0 THEN 0
    ELSE (a % 2) * (b % 2) + 2 * BitAndNat(a \div 2, b \div 2)
BitNot(a) == 0 - a - 1
BitAnd(a, b) ==
    CASE a >= 0 /\ b >= 0 -> BitAndNat(a, b)
      [] a >= 0 /\ b < 0  -> a - BitAndNat(a, BitNot(b))
      [] a < 0 /\ b >= 0  -> b - BitAndNat(b, BitNot(a))
      [] OTHER            -> BitNot(BitNot(a) + BitNot(b)
                                        - BitAndNat(BitNot(a), BitNot(b)))
BitOr(a, b) == BitNot(BitAnd(BitNot(a), BitNot(b)))

\* an RGB that joins its three terms with | instead of +
RGBArgOr(red, green, blue) == BitOr(BitOr(Shl(red, 16), Shl(green, 8)), blue)

\* an RGB that shifts red by 8 and green by 16
RGBArgSwapped(red, green, blue) == Shl(red, 8) + Shl(green, 16) + blue

\* red<<16+green<<8+blue: << binds tighter than +, and the terms are added
RGBArg(red, green, blue) == Shl(red, 16) + Shl(green, 8) + blue

\* a TurnOn that sends TurnOff's argument
TurnOnArgsOff == <<StrVal("off")>>

\* the arguments TurnOn and TurnOff hand to Send after the method
TurnOnArgs == <<StrVal("on")>>
TurnOffArgs == <<StrVal("off")>>

\* the convenience method caller c has called calls b.Send(m, a...); the
\* model follows one such call on a session
Call(c, m, a) ==
    /\ pc[c] = "idle"
    /\ op = NoOp
    /\ method' = [method EXCEPT ![c] = m]
    /\ args' = [args EXCEPT ![c] = a]
    /\ pc' = [pc EXCEPT ![c] = "lock"]
    /\ blocked' = [blocked EXCEPT ![c] = (mu # 0)]
    /\ UNCHANGED <<address, dialAddr, conn, cmdID, mu, cmd, dbuf, wire, inbox,
                   closed, devPos, unsol, log>>

\* the history entry of a call
Called(c, name, in) == [name |-> name, by |-> c, in |-> in, ret |-> ""]

TurnOn(c) ==
    /\ op' = Called(c, "TurnOn", <<>>)
    /\ Call(c, MethodSetPower, TurnOnArgs)

TurnOff(c) ==
    /\ op' = Called(c, "TurnOff", <<>>)
    /\ Call(c, MethodSetPower, TurnOffArgs)

ColorTemp(c) ==
    \E temp \in KelvinInputs :
        /\ op' = Called(c, "ColorTemp", <<temp>>)
        /\ Call(c, MethodSetCTABX, <<IntVal(ColorTempArg(temp))>>)

RGB(c) ==
    \E red \in ChannelInputs, green \in ChannelInputs, blue \in ChannelInputs :
        /\ op' = Called(c, "RGB", <<red, green, blue>>)
        /\ Call(c, MethodSetRGB, <<IntVal(RGBArg(red, green, blue))>>)

Brightness(c) ==
    \E brightness \in PercentInputs :
        /\ op' = Called(c, "Brightness", <<brightness>>)
        /\ Call(c, MethodSetBrightness,
                <<IntVal(BrightnessArg(brightness))>>)

(* ------------------------------ the device ----------------------------- *)

\* The device's bytes are seen by a Read only, so the model lets them arrive
\* while a Read is waiting for them.
Reading == \E c \in Callers : pc[c] = "decode"

\* the first complete command object on the wire at or after position p
\* (0 when there is none)
NextFrame(p) ==
    LET S == {j \in p..(Len(wire) - 1) : wire[j].t = "obj" /\ wire[j + 1].t = "}"}
    IN  IF S = {} THEN 0 ELSE CHOOSE j \in S : \A i \in S : j <= i

\* the device answers the next command it received, with the command's id
DeviceReply ==
    /\ Reading
    /\ ~closed
    /\ NextFrame(devPos) # 0
    /\ \E kind \in ReplyKinds :
          inbox' = inbox \o DeviceMsg(kind, wire[NextFrame(devPos)].id,
                                      wire[NextFrame(devPos)].call)
    /\ devPos' = NextFrame(devPos) + 2
    /\ UNCHANGED <<address, dialAddr, conn, cmdID, mu, pc, method, args, cmd,
                   dbuf, blocked, wire, closed, unsol, log, op>>

\* the ids a reply to the command with the id n may carry: n, the id before
\* it and the id after it
ReplyIds(n) == {n - 1, n, n + 1} \cap Nat

\* the device answers the next command it received, with an id of its own
\* choosing
DeviceReplyAnyId ==
    /\ Reading
    /\ ~closed
    /\ NextFrame(devPos) # 0
    /\ \E kind \in ReplyKinds, id \in ReplyIds(wire[NextFrame(devPos)].id) :
          inbox' = inbox \o DeviceMsg(kind, id, wire[NextFrame(devPos)].call)
    /\ devPos' = NextFrame(devPos) + 2
    /\ UNCHANGED <<address, dialAddr, conn, cmdID, mu, pc, method, args, cmd,
                   dbuf, blocked, wire, closed, unsol, log, op>>

\* the device reports a property change nobody asked for
DeviceNotify ==
    /\ Reading
    /\ ~closed
    /\ unsol < MaxUnsolicited
    /\ inbox' = inbox \o DeviceMsg("props", 0, 0)
    /\ unsol' = unsol + 1
    /\ UNCHANGED <<address, dialAddr, conn, cmdID, mu, pc, method, args, cmd,
                   dbuf, blocked, wire, closed, devPos, log, op>>

\* the device sends bytes that are no JSON
DeviceGarbage ==
    /\ Reading
    /\ ~closed
    /\ unsol < MaxUnsolicited
    /\ inbox' = Append(inbox, InPlain("x"))
    /\ unsol' = unsol + 1
    /\ UNCHANGED <<address, dialAddr, conn, cmdID, mu, pc, method, args, cmd,
                   dbuf, blocked, wire, closed, devPos, log, op>>

\* the connection is closed by the device, possibly in the middle of a reply
DeviceClose ==
    /\ Reading
    /\ ~closed
    /\ closed' = TRUE
    /\ \/ UNCHANGED <<inbox, devPos>>
       \/ /\ NextFrame(devPos) # 0
          /\ inbox' = Append(inbox, InObj("result", wire[NextFrame(devPos)].id,
                                          wire[NextFrame(devPos)].call))
          /\ devPos' = NextFrame(devPos) + 2
    /\ UNCHANGED <<address, dialAddr, conn, cmdID, mu, pc, method, args, cmd,
                   dbuf, blocked, wire, unsol, log, op>>

(* --------------------------- the specification ------------------------- *)

\* the state NewBulb leaves behind when the dial succeeded
Init ==
    /\ address = <<"a">>
    /\ dialAddr = DialAddress(address)
    /\ conn = "tcp"
    /\ cmdID = NewBulbCmdID
    /\ mu = 0
    /\ pc = [c \in Callers |-> "idle"]
    /\ method = [c \in Callers |-> ""]
    /\ args = [c \in Callers |-> <<>>]
    /\ cmd = [c \in Callers |-> NoCmd]
    /\ dbuf = [c \in Callers |-> <<>>]
    /\ blocked = [c \in Callers |-> FALSE]
    /\ wire = <<>>
    /\ inbox = <<>>
    /\ closed = FALSE
    /\ devPos = 1
    /\ unsol = 0
    /\ log = <<>>
    /\ op = NoOp

Next ==
    \/ \E c \in Callers : SendCall(c)
    \/ \E c \in Callers : SendLock(c)
    \/ \E c \in Callers : SendEncode(c)
    \/ \E c \in Callers : SendTrailer(c)
    \/ \E c \in Callers : SendDecode(c)
    \/ DeviceReply
    \/ DeviceNotify
    \/ DeviceGarbage
    \/ DeviceClose

Spec == Init /\ [][Next]_vars

(* -------------------- Send when every step completes ------------------- *)

\* the device sends something, or closes the connection
DeviceActs == DeviceReply \/ DeviceNotify \/ DeviceGarbage \/ DeviceClose

\* the Send that holds the mutex makes its next step on the connection
SendStep == \E c \in Callers : SendEncode(c) \/ SendTrailer(c) \/ SendDecode(c)

\* Every write returns, with or without an error; a Read returns once there
\* are bytes or the connection is closed, and while a Read waits the device
\* eventually sends something or closes; a caller waiting in b.mu.Lock() gets
\* the mutex if it is free again and again (sync.Mutex hands the mutex to a
\* waiter that has waited long).
Fairness ==
    /\ WF_vars(SendStep)
    /\ WF_vars(DeviceActs)
    /\ \A c \in Callers : SF_vars(SendLock(c))

SpecLive == Init /\ [][Next]_vars /\ Fairness

(* ------------------------ NewBulb on any address ----------------------- *)

InitDial ==
    /\ address \in Addresses
    /\ dialAddr = <<>>
    /\ conn = "nil"
    /\ cmdID = 0
    /\ mu = 0
    /\ pc = [c \in Callers |-> "idle"]
    /\ method = [c \in Callers |-> ""]
    /\ args = [c \in Callers |-> <<>>]
    /\ cmd = [c \in Callers |-> NoCmd]
    /\ dbuf = [c \in Callers |-> <<>>]
    /\ blocked = [c \in Callers |-> FALSE]
    /\ wire = <<>>
    /\ inbox = <<>>
    /\ closed = FALSE
    /\ devPos = 1
    /\ unsol = 0
    /\ log = <<>>
    /\ op = NoOp

\* NewBulb(address): the address is completed and dialled; net.Dial returns a
\* connection, and NewBulb a Bulb, or an error, and NewBulb no Bulb
NewBulb ==
    /\ dialAddr = <<>>
    /\ dialAddr' = DialAddress(address)
    /\ \/ /\ CanDial(DialAddress(address))
          /\ conn' = "tcp"
          /\ cmdID' = NewBulbCmdID
       \/ /\ conn' = "nil"
          /\ UNCHANGED cmdID
    /\ UNCHANGED <<address, mu, pc, method, args, cmd, dbuf, blocked, wire,
                   inbox, closed, devPos, unsol, log, op>>

NextDial == NewBulb

SpecDial == InitDial /\ [][NextDial]_vars

(* ------------------- one convenience call on a session ----------------- *)

\* a session fresh from NewBulb, or one whose first Send has succeeded and
\* left the counter at 1
InitOps ==
    /\ address = <<"a">>
    /\ dialAddr = DialAddress(address)
    /\ conn = "tcp"
    /\ cmdID \in {NewBulbCmdID, NewBulbCmdID + 1}
    /\ mu = 0
    /\ pc = [c \in Callers |-> "idle"]
    /\ method = [c \in Callers |-> ""]
    /\ args = [c \in Callers |-> <<>>]
    /\ cmd = [c \in Callers |-> NoCmd]
    /\ dbuf = [c \in Callers |-> <<>>]
    /\ blocked = [c \in Callers |-> FALSE]
    /\ wire = <<>>
    /\ inbox = <<>>
    /\ closed = FALSE
    /\ devPos = 1
    /\ unsol = 0
    /\ log = <<>>
    /\ op = NoOp

NextOps ==
    \/ \E c \in Callers : TurnOn(c)
    \/ \E c \in Callers : TurnOff(c)
    \/ \E c \in Callers : ColorTemp(c)
    \/ \E c \in Callers : RGB(c)
    \/ \E c \in Callers : Brightness(c)
    \/ \E c \in Callers : SendLock(c)
    \/ \E c \in Callers : SendEncode(c)
    \/ \E c \in Callers : SendTrailer(c)
    \/ \E c \in Callers : SendDecode(c)
    \/ DeviceReplyAnyId
    \/ DeviceNotify
    \/ DeviceGarbage
    \/ DeviceClose

SpecOps == InitOps /\ [][NextOps]_vars

(* ------------------------------ properties ----------------------------- *)

\* where the complete command texts (the frames) start on the wire
FramePos == {i \in 1..(Len(wire) - 1) : wire[i].t = "obj" /\ wire[i + 1].t = "}"}

\* the bytes Send number n wrote, and their kinds
BytesOf(n) == SelectSeq(wire, LAMBDA tk : tk.call = n)
Kinds(s) == [i \in 1..Len(s) |-> s[i].t]

Failures == {"encode", "trailer", "decode"}
Failed(n) == log[n].res \in Failures
\* both of Send number n's writes succeeded
Wrote(n) == log[n].res \in {"ok", "decode"} \/ (log[n].res = "pending" /\ pc[log[n].by] = "decode")
NoFailure == \A n \in 1..Len(log) : ~Failed(n)

\* C1: on a session fresh from NewBulb, as long as no Send has failed, the
\* command frames on the wire carry the ids 0, 1, 2, ... in the order the
\* Sends were issued, one frame per Send that has returned.
C1_IdsCountFromZero ==
    LET P == FramePos IN
    NoFailure =>
        /\ \A i \in P :
              LET before == Cardinality({j \in P : j < i})
              IN  wire[i].id = before /\ wire[i].call = before + 1
        /\ (\A n \in 1..Len(log) : log[n].res = "ok") => Cardinality(P) = Len(log)

C1_Witness ==
    /\ Len(log) >= 2
    /\ \A n \in 1..Len(log) : log[n].res = "ok"
    /\ Cardinality(FramePos) = Len(log)

\* C2: a Send that failed (at the command write, the terminator write or the
\* read/decode of the reply) returned with the counter as it found it, and
\* the next Send that succeeds uses the id the failed one used.
C2_FailedSendKeepsCounter ==
    /\ \A n \in 1..Len(log) : Failed(n) => log[n].after = log[n].id
    /\ \A i \in 1..Len(log) : \A j \in (i + 1)..Len(log) :
          ( /\ Failed(i)
            /\ log[j].res = "ok"
            /\ \A k \in (i + 1)..(j - 1) : Failed(k) )
          => log[j].id = log[i].id

C2_Witness ==
    /\ Len(log) >= 2
    /\ log[1].res = "decode"
    /\ log[2].res = "ok"
    /\ log[2].id = log[1].id

\* at most one Send is between its first write and its return
OneInFlight == Cardinality({c \in Callers : pc[c] \in InFlight}) <= 1

\* the bytes of one Send are never inside the bytes of another: a byte of a
\* Send that has a later byte on the wire is directly followed by a byte of
\* the same Send
Contiguous ==
    \A i \in 1..Len(wire) : \A k \in (i + 1)..Len(wire) :
        wire[i].call = wire[k].call => wire[k - 1].call = wire[i].call

\* b is a complete request frame: an object text, then bytes ending in CR LF
CompleteFrame(b) ==
    /\ Len(b) >= 4
    /\ b[1].t = "obj"
    /\ b[2].t = "}"
    /\ Kinds(SubSeqFrom(b, Len(b) - 1)) = <<"CR", "LF">>

\* C3 as claimed: at most one Send is in flight, no Send's bytes lie inside
\* another's, and the bytes on the connection are complete request frames:
\* every Send that is done writing and wrote anything wrote a complete frame.
C3_OnlyCompleteFrames ==
    /\ OneInFlight
    /\ Contiguous
    /\ \A n \in 1..Len(log) :
          LET b == BytesOf(n)
          IN  ((log[n].res # "pending" \/ Wrote(n)) /\ b # <<>>) => CompleteFrame(b)

\* C3 as amended: at most one Send is in flight, no Send's bytes lie inside
\* another's, and every Send whose two writes succeeded put one complete
\* request frame on the wire.
C3_NoInterleaving ==
    /\ OneInFlight
    /\ Contiguous
    /\ \A n \in 1..Len(log) : Wrote(n) => CompleteFrame(BytesOf(n))

C3_Witness ==
    /\ Len(log) >= 2
    /\ Wrote(1)
    /\ Wrote(2)
    /\ log[2].res = "pending"
    /\ blocked[log[2].by]

\* C4: every request a Send put on the wire is the object text immediately
\* followed by CR LF, with no byte between the closing brace and the CR.
C4_FrameIsObjectThenCRLF ==
    \A n \in 1..Len(log) :
        Wrote(n) => Kinds(BytesOf(n)) = <<"obj", "}", "CR", "LF">>

\* C5: Send returns nil only for a reply that has a result member.
C5_NilOnlyForResult ==
    \A n \in 1..Len(log) : log[n].res = "ok" => log[n].got = "result"

\* C6 as claimed: every command frame carries an id strictly greater than
\* the id of every frame written before it.
C6_FrameIdsStrictlyIncrease ==
    LET P == FramePos IN
    \A i \in P : \A j \in P : i < j => wire[i].id < wire[j].id

\* C6 as amended: every command frame carries an id not smaller than the id
\* of every frame written before it, and strictly greater than the id of
\* every earlier frame whose Send succeeded.
C6_FrameIdsNeverDecrease ==
    LET P == FramePos IN
    \A i \in P : \A j \in P :
        i < j => /\ wire[i].id <= wire[j].id
                 /\ log[wire[i].call].res = "ok" => wire[i].id < wire[j].id

C6_Witness ==
    \E i \in FramePos : \E j \in FramePos :
        /\ i < j
        /\ log[wire[i].call].res = "decode"
        /\ wire[j].id = wire[i].id

\* what the claim C7 calls a host name or IPv4 literal, an IPv6 literal, a
\* port, and an address with an explicit port
IsHost(a) ==
    /\ a # <<>>
    /\ \A i \in 1..Len(a) : a[i] \in {"a", "1", "."}
    /\ a[1] # "." /\ a[Len(a)] # "."
    /\ ~Contains(a, <<".", ".">>)
IsIPv6(a) ==
    /\ \A i \in 1..Len(a) : a[i] \in {"a", "1", ":"}
    /\ Cardinality({i \in 1..(Len(a) - 1) : a[i] = ":" /\ a[i + 1] = ":"}) = 1
    /\ a[1] = ":" => a[2] = ":"
    /\ a[Len(a)] = ":" => a[Len(a) - 1] = ":"
IsPort(p) == p # <<>> /\ \A i \in 1..Len(p) : p[i] = "1"
HasPort(a) ==
    \E k \in 1..Len(a) :
        /\ a[k] = ":"
        /\ IsPort(SubSeqFrom(a, k + 1))
        /\ \/ IsHost(Prefix(a, k - 1))
           \/ /\ k >= 3
              /\ a[1] = "[" /\ a[k - 1] = "]"
              /\ IsIPv6(SubSeq(a, 2, k - 2))
WithDefaultPort(a) ==
    IF IsIPv6(a) THEN <<"[">> \o a \o <<"]">> \o DefaultPortSuffix
    ELSE a \o DefaultPortSuffix

\* C7: NewBulb dials a valid address without a port (host name, IPv4 or
\* IPv6 literal) on port 55443, and an address with a port unchanged.
C7_DefaultPort ==
    dialAddr # <<>> =>
        /\ (IsHost(address) \/ IsIPv6(address)) => dialAddr = WithDefaultPort(address)
        /\ HasPort(address) => dialAddr = address

\* C8: the ids are assigned in the order the Sends acquire the mutex: they
\* never decrease in that order, no Send uses the id of an earlier Send that
\* succeeded, and while no Send has failed they are 0, 1, 2, ... without a gap.
C8_IdsInLockOrder ==
    /\ \A i \in 1..Len(log) : \A j \in (i + 1)..Len(log) :
          /\ log[i].id <= log[j].id
          /\ log[i].res = "ok" => log[i].id < log[j].id
    /\ NoFailure => \A n \in 1..Len(log) : log[n].id = n - 1

C8_Witness ==
    /\ Len(log) >= 2
    /\ log[1].res = "ok"
    /\ log[2].res = "pending"
    /\ blocked[log[2].by]
    /\ log[1].by # log[2].by
    /\ log[2].id = 1

\* C9: the mutex is held exactly while a Send is between Lock and return:
\* once a Send has returned, with nil or with any error, the mutex is free,
\* and a caller waiting for it while no Send is in progress can take it.
C9_LockReleased ==
    /\ \A c \in Callers : (mu = c) <=> (pc[c] \in InFlight)
    /\ (\A c \in Callers : pc[c] \notin InFlight) => mu = 0
    /\ \A c \in Callers :
          (pc[c] = "lock" /\ \A d \in Callers : pc[d] \notin InFlight)
          => CanLock(c)

C9_Witness ==
    /\ Len(log) >= 2
    /\ Failed(1)
    /\ log[2].res = "pending"
    /\ blocked[log[2].by]
    /\ mu = log[2].by

\* C10: a Send that returned nil has read from the connection no byte past
\* the end of the one JSON value it parsed.
C10_ReadsOneValueOnly ==
    \A n \in 1..Len(log) : log[n].res = "ok" => log[n].over = 0

Max(a, b) == IF a >= b THEN a ELSE b
Min(a, b) == IF a <= b THEN a ELSE b

\* the one call followed has invoked Send once, with the method m and the
\* arguments a: they are Send's parameters while it runs, the command it
\* builds and every command text on the wire; and the call returns when that
\* Send returns, with its result
OneSendWith(m, a) ==
    /\ Invoked = 1
    /\ pc[op.by] # "idle" => method[op.by] = m /\ args[op.by] = a
    /\ pc[op.by] \in InFlight => cmd[op.by].Method = m /\ cmd[op.by].Params = a
    /\ \A i \in 1..Len(wire) :
          wire[i].t = "obj" => wire[i].method = m /\ wire[i].params = a
    /\ op.ret # "" <=> pc[op.by] = "idle"
    /\ op.ret # "" => Len(log) = 1 /\ log[1].res = op.ret

\* the call followed has returned nil and its command is on the wire with
\* the one integer parameter n
SentInt(n) ==
    /\ op.ret = "ok"
    /\ \E i \in 1..Len(wire) : wire[i].t = "obj" /\ wire[i].params = <<IntVal(n)>>

\* C11: ColorTemp(kelvin) issues exactly one Send, with the method set_ct_abx
\* and the single parameter max(1700, min(6500, kelvin)): 1700 below 1700,
\* 6500 above 6500, and kelvin itself from 1700 to 6500, both included.
C11_ColorTempClamped ==
    op.name = "ColorTemp" =>
        LET kelvin == op.in[1]
            sent == Max(1700, Min(6500, kelvin)) IN
        /\ OneSendWith("set_ct_abx", <<IntVal(sent)>>)
        /\ kelvin < 1700 => sent = 1700
        /\ kelvin > 6500 => sent = 6500
        /\ kelvin \in 1700..6500 => sent = kelvin

\* a ColorTemp(6500 + Edge) has returned nil after sending 6500
C11_Witness ==
    /\ op.name = "ColorTemp"
    /\ op.in[1] > 6500
    /\ SentInt(6500)

\* C12: Brightness(percent) issues exactly one Send, with the method
\* set_bright and the single parameter max(1, min(100, percent)): 1 for zero
\* and for negative values, 100 above 100, and percent itself from 1 to 100.
C12_BrightnessClamped ==
    op.name = "Brightness" =>
        LET percent == op.in[1]
            sent == Max(1, Min(100, percent)) IN
        /\ OneSendWith("set_bright", <<IntVal(sent)>>)
        /\ percent <= 0 => sent = 1
        /\ percent > 100 => sent = 100
        /\ percent \in 1..100 => sent = percent

\* a Brightness(0) has returned nil after sending 1
C12_Witness ==
    /\ op.name = "Brightness"
    /\ op.in[1] = 0
    /\ SentInt(1)

\* C13: for red, green and blue in 0..255, RGB issues exactly one Send, with
\* the method set_rgb and the single parameter (red << 16) | (green << 8) |
\* blue; the parameter is in 0..16777215, each channel can be recovered from
\* it, and RGB(255,0,0), RGB(0,255,0) and RGB(0,0,255) send 16711680, 65280
\* and 255.
C13_RGBPacked ==
    (op.name = "RGB" /\ \A i \in 1..3 : op.in[i] \in 0..255) =>
        LET red == op.in[1]
            green == op.in[2]
            blue == op.in[3]
            sent == BitOr(BitOr(Shl(red, 16), Shl(green, 8)), blue) IN
        /\ OneSendWith("set_rgb", <<IntVal(sent)>>)
        /\ sent \in 0..16777215
        /\ (sent \div 65536) % 256 = red
        /\ (sent \div 256) % 256 = green
        /\ sent % 256 = blue
        /\ op.in = <<255, 0, 0>> => sent = 16711680
        /\ op.in = <<0, 255, 0>> => sent = 65280
        /\ op.in = <<0, 0, 255>> => sent = 255

\* an RGB(255, 0, 0) has returned nil after sending 16711680
C13_Witness ==
    /\ op.name = "RGB"
    /\ op.in = <<255, 0, 0>>
    /\ SentInt(16711680)

\* C14: TurnOn issues exactly one Send, with the method set_power and the
\* parameter "on", and TurnOff exactly one with set_power and "off"; each
\* returns what that Send returned, and the session changes only as that Send
\* changes it: the counter is one more after nil and the same after an error,
\* the mutex is free again and the connection is the one NewBulb opened.
C14_TurnOnTurnOff ==
    /\ op.name = "TurnOn" => OneSendWith("set_power", <<StrVal("on")>>)
    /\ op.name = "TurnOff" => OneSendWith("set_power", <<StrVal("off")>>)
    /\ (op.name \in {"TurnOn", "TurnOff"} /\ op.ret # "") =>
          /\ cmdID = (IF op.ret = "ok" THEN log[1].id + 1 ELSE log[1].id)
          /\ mu = 0
          /\ conn = "tcp"

\* a TurnOn has returned nil and the counter is one more than the id it sent
C14_Witness ==
    /\ op.name = "TurnOn"
    /\ op.ret = "ok"
    /\ \E i \in 1..Len(wire) : wire[i].t = "obj" /\ wire[i].params = <<StrVal("on")>>
    /\ cmdID = log[1].id + 1

StepOrder == <<"encode", "trailer", "decode">>

\* C15: a Send makes its steps in the order command write, terminator
\* write, response read, each at most once and only after the step before it
\* succeeded: a Send whose command write failed has written no terminator
\* byte and read nothing, one whose terminator write failed has read
\* nothing, and the bytes a Send has written are the command bytes once and
\* then the terminator bytes once, or the beginning of that.
C15_StepsInOrder ==
    \A n \in 1..Len(log) :
        LET e == log[n]
            b == BytesOf(n) IN
        /\ e.steps = Prefix(StepOrder, Len(e.steps))
        /\ e.res = "encode" => e.steps = <<"encode">> /\ Len(b) < 3
        /\ e.res = "trailer" => e.steps = <<"encode", "trailer">> /\ Len(b) \in 3..4
        /\ e.res \in {"ok", "decode"} => e.steps = StepOrder /\ Len(b) = 5
        /\ Kinds(b) = Prefix(<<"obj", "}", "LF", "CR", "LF">>, Len(b))
        /\ e.res = "pending" =>
              (pc[e.by] = "encode" => e.steps = <<>>)
              /\ (pc[e.by] = "trailer" => e.steps = <<"encode">>)
              /\ (pc[e.by] = "decode" => Len(e.steps) >= 2)

\* one Send has stopped at its terminator write and another has made all
\* three steps and returned nil
C15_Witness ==
    \E n, m \in 1..Len(log) :
        /\ log[n].res = "trailer"
        /\ log[n].steps = <<"encode", "trailer">>
        /\ log[m].res = "ok"
        /\ log[m].steps = StepOrder

\* the device has done nothing but answer, once and in order, the commands
\* it received
DeviceOnlyAnswers == unsol = 0 /\ ~closed

\* C16: when the device answers each command it receives exactly once and in
\* order, the response a successful Send accepts is the device's reply to
\* the command that same Send wrote, also after earlier Sends that failed.
C16_ReplyIsToOwnCommand ==
    DeviceOnlyAnswers =>
        \A n \in 1..Len(log) : log[n].res = "ok" => log[n].re = n

\* the object texts Unmarshal takes for a response
WellFormed == {"result", "error", "props"}

\* C17: Send does not compare the id of the response with the id it sent:
\* whenever Decode has parsed a well-formed response object, whatever its
\* id, the Send returns nil and leaves the counter at the sent id plus one.
C17_ResponseIdNotChecked ==
    \A n \in 1..Len(log) :
        (log[n].res # "pending" /\ log[n].got \in WellFormed) =>
            /\ log[n].res = "ok"
            /\ log[n].after = log[n].id + 1
            /\ cmdID = log[n].id + 1

\* a Send has returned nil on a reply whose id is larger than the id sent
C17_Witness ==
    \E n \in 1..Len(log) :
        /\ log[n].res = "ok"
        /\ log[n].got \in ReplyKinds
        /\ log[n].rid > log[n].id
        /\ cmdID = log[n].id + 1

\* the same on a reply whose id is smaller than the id sent
C17_SmallerId ==
    \E n \in 1..Len(log) :
        /\ log[n].res = "ok"
        /\ log[n].got \in ReplyKinds
        /\ log[n].rid < log[n].id

\* C18: RGB validates and clamps nothing: for all integers red, green and
\* blue, those outside 0..255 included, the single parameter sent with
\* set_rgb is the bitwise OR (red << 16) | (green << 8) | blue.
C18_SentIsBitwiseOr ==
    op.name = "RGB" =>
        OneSendWith("set_rgb",
            <<IntVal(BitOr(BitOr(Shl(op.in[1], 16), Shl(op.in[2], 8)), op.in[3]))>>)

\* C18, as the code has it: for all integers red, green and blue, those
\* outside 0..255 included, RGB issues one Send with set_rgb and the single
\* parameter red * 65536 + green * 256 + blue, the sum of the three shifted
\* terms; the sum is the bitwise OR of the terms whenever no bit is set in
\* two of them, and otherwise it differs from the OR by the bits they share,
\* which are carried upwards.
C18_SentIsSum ==
    op.name = "RGB" =>
        LET red == op.in[1]
            green == op.in[2]
            blue == op.in[3]
            sent == red * 65536 + green * 256 + blue
            upper == red * 65536 + green * 256
            high == BitOr(red * 65536, green * 256)
            shared == BitAnd(red * 65536, green * 256) IN
        /\ OneSendWith("set_rgb", <<IntVal(sent)>>)
        /\ upper = high + shared
        /\ sent = BitOr(upper, blue) + BitAnd(upper, blue)
        /\ (shared = 0 /\ BitAnd(upper, blue) = 0) => sent = BitOr(high, blue)

\* an RGB(1, green, 0) with green above 255 has returned nil after sending
\* 65536 + green * 256, which is not the bitwise OR of the terms (for green =
\* 256 the sum is 131072 and the OR 65536)
C18_Witness ==
    /\ op.name = "RGB"
    /\ op.in[1] = 1 /\ op.in[2] > 255 /\ op.in[3] = 0
    /\ SentInt(65536 + op.in[2] * 256)
    /\ BitOr(65536, op.in[2] * 256) # 65536 + op.in[2] * 256

\* C19: when every write and every read of the connection completes, with
\* or without an error, and the mutex is granted fairly, every Send that is
\* invoked returns, however many callers use the session at the same time.
C19_EverySendReturns ==
    \A c \in Callers : (pc[c] # "idle") ~> (pc[c] = "idle")

\* a caller waits for the mutex while the caller holding it waits for the
\* device's reply
C19_Witness ==
    \E c, d \in Callers :
        /\ pc[c] = "lock"
        /\ blocked[c]
        /\ mu = d
        /\ pc[d] = "decode"
        /\ inbox = <<>>

\* C20: no operation of the session closes or replaces its connection:
\* after any Sends, failed ones included, b.conn is the connection NewBulb
\* opened and a later Send writes to it; and a Send changes nothing in the
\* session but the counter: the mutex is free whenever no Send is past
\* Lock, and the counter is the number of Sends that returned nil.
C20_ConnectionKept ==
    /\ conn = "tcp"
    /\ (\A c \in Callers : pc[c] \in {"idle", "lock"}) => mu = 0
    /\ cmdID = Cardinality({n \in 1..Len(log) : log[n].res = "ok"})
    /\ \A n \in 1..Len(log) :
          (log[n].res # "pending" /\ log[n].steps # <<"encode">>) => Len(BytesOf(n)) >= 3

\* a Send has failed and a later Send has written its command and its
\* terminator to the connection, which is still the one NewBulb opened
C20_Witness ==
    /\ conn = "tcp"
    /\ \E n, m \in 1..Len(log) :
          /\ n < m
          /\ Failed(n)
          /\ Len(BytesOf(m)) = 5
          /\ log[m].res = "ok"

====
